---- MODULE Spec2Model ----
(***************************************************************************)
(* Provider abstraction layer of phlox: the factory that picks the cloud   *)
(* (OpenAI) or the local (Ollama) provider from a configuration record,    *)
(* and the cloud adapters (AsyncClient, Client, OpenAIEmbeddingFunction).  *)
(*                                                                         *)
(* Python values are tagged records [type, val] so that None, strings,     *)
(* numbers, lists and dicts can be compared with each other as in Python.  *)
(* A string is a sequence of tokens; "/" is always a token of its own, so  *)
(* that rstrip('/') can be computed.                                       *)
(***************************************************************************)
EXTENDS Integers, Sequences, FiniteSets, TLC

VARIABLES
    config,          \* factory: the configuration dict handed to the factory
    made,            \* factory: per factory operation, what the last call did
    asyncClient,     \* the AsyncClient instance (self)
    client,          \* the Client instance (self)
    embeddingFunction, \* the OpenAIEmbeddingFunction instance (self)
    messages,        \* the caller's messages list object
    options,         \* the caller's options object (None or a dict)
    last,            \* the last finished call: arguments, request, reply, outcome
    tasks,           \* per coroutine: where an AsyncClient call is suspended
    openSessions     \* aiohttp.ClientSession objects currently open

vars == <<config, made, asyncClient, client, embeddingFunction, messages,
          options, last, tasks, openSessions>>

-----------------------------------------------------------------------------
(* Python values *)

None == [type |-> "NoneType", val |-> <<>>]
Str(s) == [type |-> "str", val |-> s]
Int_(n) == [type |-> "int", val |-> n]
Float(tenths) == [type |-> "float", val |-> tenths]
List(s) == [type |-> "list", val |-> s]
Dict(d) == [type |-> "dict", val |-> d]
PyTrue == [type |-> "bool", val |-> TRUE]

\* bool(v)
Truthy(v) ==
    CASE v.type = "NoneType" -> FALSE
      [] v.type = "str" -> v.val # <<>>
      [] v.type = "list" -> v.val # <<>>
      [] v.type = "dict" -> DOMAIN v.val # {}
      [] v.type = "int" -> v.val # 0
      [] v.type = "float" -> v.val # 0
      [] v.type = "bool" -> v.val
      [] OTHER -> TRUE

\* d.get(k, default) on a dict
Get(d, k, default) == IF k \in DOMAIN d.val THEN d.val[k] ELSE default

\* f"{v}"
Format(v) == IF v.type = "NoneType" THEN <<"None">> ELSE v.val

\* s.rstrip('/') on a token sequence
RECURSIVE rstrip(_)
rstrip(s) ==
    IF s # <<>> /\ s[Len(s)] = "/" THEN rstrip(SubSeq(s, 1, Len(s) - 1)) ELSE s

\* how a call ends
Return(v) == [kind |-> "return", value |-> v]
Raise(exc, arg) == [kind |-> "raise", value |-> [exc |-> exc, arg |-> arg]]

NotCalled == [kind |-> "none", value |-> <<>>]

-----------------------------------------------------------------------------
(* Cloud adapter constructors *)

DefaultBaseUrl == <<"https:", "/", "/", "api.openai.com", "/", "v1">>
DefaultEmbeddingModel == <<"text-embedding-3-small">>

Headers(api_key) ==
    ("Content-Type" :> <<"application/json">>)
    @@ ("Authorization" :> (<<"Bearer ">> \o Format(api_key)))

AsyncClient_init(host, api_key) ==
    [cls |-> "AsyncOpenAIClient",
     host |-> rstrip(host.val),
     api_key |-> api_key,
     headers |-> Headers(api_key)]

Client_init(host, api_key) ==
    [cls |-> "OpenAIClient",
     host |-> rstrip(host.val),
     api_key |-> api_key,
     headers |-> Headers(api_key)]

OpenAIEmbeddingFunction_init(api_key, model_name, base_url) ==
    [cls |-> "OpenAIEmbeddingFunction",
     api_key |-> api_key,
     model_name |-> model_name,
     base_url |-> rstrip(base_url.val),
     headers |-> Headers(api_key)]

-----------------------------------------------------------------------------
(* client_factory.py *)

Placeholder == Str(<<"&nbsp;">>)

\* variant: the comparison with the placeholder left out
UseOpenAI_NoPlaceholder(cfg) ==
    Truthy(Get(cfg, "OPENAI_API_KEY", None))

\* config.get("OPENAI_API_KEY") and config["OPENAI_API_KEY"] != "&nbsp;"
UseOpenAI(cfg) ==
    /\ Truthy(Get(cfg, "OPENAI_API_KEY", None))
    /\ cfg.val["OPENAI_API_KEY"] # Placeholder

\* what a factory call did: the line it logged and how it ended; the Ollama
\* constructors are handed the configured value as it is, the factory does not
\* look at it
FactoryResult(logged, outcome) == [logged |-> logged, outcome |-> outcome]

get_async_client_result(cfg) ==
    IF UseOpenAI(cfg)
    THEN FactoryResult("Using OpenAI client",
             Return(AsyncClient_init(
                 Get(cfg, "OPENAI_BASE_URL", Str(DefaultBaseUrl)),
                 cfg.val["OPENAI_API_KEY"])))
    ELSE FactoryResult("Using Ollama client",
             IF "OLLAMA_BASE_URL" \in DOMAIN cfg.val
             THEN Return([cls |-> "AsyncOllamaClient",
                          host |-> cfg.val["OLLAMA_BASE_URL"].val])
             ELSE Raise("KeyError", <<"OLLAMA_BASE_URL">>))

get_client_result(cfg) ==
    IF UseOpenAI(cfg)
    THEN FactoryResult("Using OpenAI client",
             Return(Client_init(
                 Get(cfg, "OPENAI_BASE_URL", Str(DefaultBaseUrl)),
                 cfg.val["OPENAI_API_KEY"])))
    ELSE FactoryResult("Using Ollama client",
             IF "OLLAMA_BASE_URL" \in DOMAIN cfg.val
             THEN Return([cls |-> "OllamaClient",
                          host |-> cfg.val["OLLAMA_BASE_URL"].val])
             ELSE Raise("KeyError", <<"OLLAMA_BASE_URL">>))

get_embedding_function_result(cfg) ==
    IF UseOpenAI(cfg)
    THEN FactoryResult("Using OpenAI embedding function",
             Return(OpenAIEmbeddingFunction_init(
                 cfg.val["OPENAI_API_KEY"],
                 Get(cfg, "EMBEDDING_MODEL", Str(DefaultEmbeddingModel)),
                 Get(cfg, "OPENAI_BASE_URL", Str(DefaultBaseUrl)))))
    ELSE FactoryResult("Using Ollama embedding function",
             IF "OLLAMA_BASE_URL" \notin DOMAIN cfg.val
             THEN Raise("KeyError", <<"OLLAMA_BASE_URL">>)
             ELSE IF "EMBEDDING_MODEL" \notin DOMAIN cfg.val
             THEN Raise("KeyError", <<"EMBEDDING_MODEL">>)
             ELSE Return([cls |-> "OllamaEmbeddingFunction",
                          url |-> cfg.val["OLLAMA_BASE_URL"].val
                                  \o <<"/", "api", "/", "embeddings">>,
                          model_name |-> cfg.val["EMBEDDING_MODEL"]]))

FactoryOps == {"get_async_client", "get_client", "get_embedding_function"}

get_async_client ==
    /\ made' = [made EXCEPT !["get_async_client"] = get_async_client_result(config)]
    /\ UNCHANGED <<config, asyncClient, client, embeddingFunction, messages,
                   options, last, tasks, openSessions>>

get_client ==
    /\ made' = [made EXCEPT !["get_client"] = get_client_result(config)]
    /\ UNCHANGED <<config, asyncClient, client, embeddingFunction, messages,
                   options, last, tasks, openSessions>>

get_embedding_function ==
    /\ made' = [made EXCEPT !["get_embedding_function"] =
                                get_embedding_function_result(config)]
    /\ UNCHANGED <<config, asyncClient, client, embeddingFunction, messages,
                   options, last, tasks, openSessions>>

-----------------------------------------------------------------------------
(* Bounds and the inputs the calls are driven with *)

MaxTasks == 2        \* coroutines calling the AsyncClient concurrently
MaxTexts == 2        \* texts in one embedding batch
MaxData == 2         \* entries of the vendor's "data" list

DefaultTemperatureTenths == 7    \* 0.7, in tenths

ChatModel == Str(<<"gpt-4o">>)
EmbedModel == Str(<<"text-embedding-3-small">>)

SeqsUpTo(S, n) == UNION {[1..k -> S] : k \in 0..n}

UserMessage == Dict(("role" :> Str(<<"user">>)) @@ ("content" :> Str(<<"hello">>)))
Hosts == {Str(DefaultBaseUrl),
          Str(<<"http:", "/", "/", "proxy", "/", "v1", "/", "/">>)}
ApiKeys == {Str(<<"sk-1">>)}
MessageLists == {List(<<UserMessage>>)}
OptionValues ==
    {None,
     Dict(<<>>),
     Dict("temperature" :> Float(2)),
     Dict("num_predict" :> Int_(50)),
     Dict(("temperature" :> Float(2)) @@ ("num_predict" :> Int_(50))
          @@ ("top_k" :> Int_(40)))}
CloudOptionValues == {Dict("num_predict" :> Int_(50))}

Tool == Dict(("type" :> Str(<<"function">>)) @@ ("name" :> Str(<<"lookup">>)))
ToolCall == Dict(("id" :> Str(<<"call_1">>)) @@ ("name" :> Str(<<"lookup">>)))
\* (format, tools) pairs a caller passes to chat
ChatExtras ==
    {[format |-> None, tools |-> None],
     [format |-> Dict(<<>>), tools |-> List(<<>>)],
     [format |-> Dict("type" :> Str(<<"object">>)), tools |-> List(<<Tool>>)]}

(* What the vendor answers *)
InvalidJson == [type |-> "invalid", val |-> <<>>]
TransportError == [net |-> "error", status |-> 0, text |-> <<>>, json |-> InvalidJson]
HttpReply(status, text, json) ==
    [net |-> "ok", status |-> status, text |-> text, json |-> json]
ErrorReplies == {HttpReply(s, <<"quota exceeded">>, InvalidJson) : s \in {201, 500}}

ChoiceMessage(role, content, tool_calls) ==
    IF tool_calls = InvalidJson
    THEN Dict(("role" :> Str(<<role>>)) @@ ("content" :> Str(<<content>>)))
    ELSE Dict(("role" :> Str(<<role>>)) @@ ("content" :> Str(<<content>>))
              @@ ("tool_calls" :> tool_calls))
Choice(message) == Dict("message" :> message)
FirstMessages ==
    {ChoiceMessage("assistant", "hi", tc) :
         tc \in {InvalidJson, None, List(<<>>), List(<<ToolCall>>)}}
    \cup {ChoiceMessage("tool", "hi", List(<<ToolCall>>))}
OtherChoice == Choice(ChoiceMessage("system", "other", List(<<ToolCall, ToolCall>>)))
ChatBodies ==
    {InvalidJson, Dict(<<>>), Dict("choices" :> List(<<>>)),
     Dict("choices" :> List(<<Choice(ChoiceMessage("assistant", "hi", InvalidJson))>>))}
    \cup {Dict("choices" :> List(<<Choice(m), OtherChoice>>)) : m \in FirstMessages}
ChatReplies ==
    {TransportError} \cup ErrorReplies
    \cup {HttpReply(200, <<"json">>, b) : b \in ChatBodies}

Vec(i) == List(<<Float(i)>>)
DataList(s) == List([i \in 1..Len(s) |-> Dict("embedding" :> Vec(s[i]))])
EmbedBodies ==
    {InvalidJson, Dict(<<>>)} \cup {Dict("data" :> DataList(s)) : s \in SeqsUpTo({1, 2}, MaxData)}
EmbedReplies ==
    {TransportError} \cup ErrorReplies
    \cup {HttpReply(200, <<"json">>, b) : b \in EmbedBodies}

TextLists == {List(SubSeq(<<Str(<<"a">>), Str(<<"b">>), Str(<<"c">>), Str(<<"d">>)>>, 1, n)) :
                  n \in 0..MaxTexts}
Prompts == {Str(<<"a">>)}

-----------------------------------------------------------------------------
(* openai_client.py: request and response translation *)

HttpPost(url, headers, json) == [url |-> url, headers |-> headers, json |-> json]

AsyncClient_request_data(model, msgs, opts, format, tools) ==
    LET o == IF Truthy(opts) THEN opts ELSE Dict(<<>>)
        base == ("model" :> model) @@ ("messages" :> msgs)
                @@ ("temperature" :> Get(o, "temperature", Float(DefaultTemperatureTenths)))
                @@ ("max_tokens" :> Get(o, "num_predict", None))
        withFormat == IF Truthy(format)
                      THEN base @@ ("response_format" :> Dict("type" :> Str(<<"json_object">>)))
                      ELSE base
    IN  IF Truthy(tools) THEN withFormat @@ ("tools" :> tools) ELSE withFormat

AsyncClient_chat_post(self, data) ==
    HttpPost(self.host \o <<"/", "chat", "/", "completions">>, self.headers, data)

AsyncClient_chat_result(model, result) ==
    IF result.type # "dict" \/ "choices" \notin DOMAIN result.val
    THEN Raise("KeyError", <<"choices">>)
    ELSE IF result.val["choices"].val = <<>>
    THEN Raise("IndexError", <<"list index out of range">>)
    ELSE LET message == result.val["choices"].val[1].val["message"]
         IN  Return(Dict(("model" :> model)
                 @@ ("message" :> Dict(("role" :> Str(<<"assistant">>))
                                       @@ ("content" :> message.val["content"])))
                 @@ ("tool_calls" :> Get(message, "tool_calls", List(<<>>)))
                 @@ ("done" :> PyTrue)))

\* the body of "async with session.post(...) as response", once the body is read
AsyncClient_chat_response(model, reply) ==
    IF reply.net = "error" THEN Raise("TransportError", <<>>)
    ELSE IF reply.status # 200
    THEN Raise("Exception", <<"OpenAI API error: ">> \o reply.text)
    ELSE IF reply.json = InvalidJson THEN Raise("JSONDecodeError", <<>>)
    ELSE AsyncClient_chat_result(model, reply.json)

AsyncClient_embeddings_post(self, model, prompt) ==
    HttpPost(self.host \o <<"/", "embeddings">>, self.headers,
             ("model" :> model) @@ ("input" :> prompt))

AsyncClient_embeddings_response(reply) ==
    IF reply.net = "error" THEN Raise("TransportError", <<>>)
    ELSE IF reply.status # 200
    THEN Raise("Exception", <<"OpenAI API error: ">> \o reply.text)
    ELSE IF reply.json = InvalidJson THEN Raise("JSONDecodeError", <<>>)
    ELSE IF "data" \notin DOMAIN reply.json.val THEN Raise("KeyError", <<"data">>)
    ELSE IF reply.json.val["data"].val = <<>>
    THEN Raise("IndexError", <<"list index out of range">>)
    ELSE Return(Dict("embedding" :> reply.json.val["data"].val[1].val["embedding"]))

Client_request_data(model, msgs, opts, format, tools) ==
    LET o == IF Truthy(opts) THEN opts ELSE Dict(<<>>)
        base == ("model" :> model) @@ ("messages" :> msgs)
                @@ ("temperature" :> Get(o, "temperature", Float(DefaultTemperatureTenths)))
                @@ ("max_tokens" :> Get(o, "num_predict", None))
        withFormat == IF Truthy(format)
                      THEN base @@ ("response_format" :> Dict("type" :> Str(<<"json_object">>)))
                      ELSE base
    IN  IF Truthy(tools) THEN withFormat @@ ("tools" :> tools) ELSE withFormat

Client_chat_post(self, data) ==
    HttpPost(self.host \o <<"/", "chat", "/", "completions">>, self.headers, data)

Client_chat_result(model, result) ==
    IF result.type # "dict" \/ "choices" \notin DOMAIN result.val
    THEN Raise("KeyError", <<"choices">>)
    ELSE IF result.val["choices"].val = <<>>
    THEN Raise("IndexError", <<"list index out of range">>)
    ELSE LET message == result.val["choices"].val[1].val["message"]
         IN  Return(Dict(("model" :> model)
                 @@ ("message" :> Dict(("role" :> Str(<<"assistant">>))
                                       @@ ("content" :> message.val["content"])))
                 @@ ("tool_calls" :> Get(message, "tool_calls", List(<<>>)))
                 @@ ("done" :> PyTrue)))

\* variant: only the 4xx and 5xx statuses taken for errors
Client_chat_response_From400(model, reply) ==
    IF reply.net = "error" THEN Raise("TransportError", <<>>)
    ELSE IF reply.status >= 400
    THEN Raise("Exception", <<"OpenAI API error: ">> \o reply.text)
    ELSE IF reply.json = InvalidJson THEN Raise("JSONDecodeError", <<>>)
    ELSE Client_chat_result(model, reply.json)

Client_chat_response(model, reply) ==
    IF reply.net = "error" THEN Raise("TransportError", <<>>)
    ELSE IF reply.status # 200
    THEN Raise("Exception", <<"OpenAI API error: ">> \o reply.text)
    ELSE IF reply.json = InvalidJson THEN Raise("JSONDecodeError", <<>>)
    ELSE Client_chat_result(model, reply.json)

(* openai_embedding.py *)

OpenAIEmbeddingFunction_post(self, texts) ==
    HttpPost(self.base_url \o <<"/", "embeddings">>, self.headers,
             ("model" :> self.model_name) @@ ("input" :> texts))

OpenAIEmbeddingFunction_response(reply) ==
    IF reply.net = "error" THEN Raise("TransportError", <<>>)
    ELSE IF reply.status # 200
    THEN Raise("Exception", <<"OpenAI API error: ">> \o reply.text)
    ELSE IF reply.json = InvalidJson THEN Raise("JSONDecodeError", <<>>)
    ELSE IF "data" \notin DOMAIN reply.json.val THEN Raise("KeyError", <<"data">>)
    ELSE LET data == reply.json.val["data"].val
         IN  Return(List([i \in 1..Len(data) |-> data[i].val["embedding"]]))

-----------------------------------------------------------------------------
(* The factory on its own: SpecFactory *)

Missing == [type |-> "missing", val |-> <<>>]
MakeConfig(key, base, ollama, embedding) ==
    LET full == ("OPENAI_API_KEY" :> key) @@ ("OPENAI_BASE_URL" :> base)
                @@ ("OLLAMA_BASE_URL" :> ollama) @@ ("EMBEDDING_MODEL" :> embedding)
        present == {k \in DOMAIN full : full[k] # Missing}
    IN  Dict([k \in present |-> full[k]])

OllamaUrl == Str(<<"http:", "/", "/", "localhost:11434">>)
Configs ==
    {MakeConfig(key, base, ollama, embedding) :
        key \in {Missing, Str(<<>>), Placeholder, Str(<<" ">>), Str(<<"sk-1">>)},
        base \in {Missing} \cup Hosts,
        ollama \in {Missing, Str(<<>>), OllamaUrl},
        embedding \in {Missing, Str(<<>>), Str(<<"nomic-embed-text">>)}}

FixedAdapters ==
    /\ asyncClient = AsyncClient_init(Str(DefaultBaseUrl), Str(<<"sk-1">>))
    /\ client = Client_init(Str(DefaultBaseUrl), Str(<<"sk-1">>))
    /\ embeddingFunction = OpenAIEmbeddingFunction_init(
                               Str(<<"sk-1">>), Str(DefaultEmbeddingModel), Str(DefaultBaseUrl))

NoCall == [adapter |-> "", op |-> "", args |-> <<>>, requests |-> <<>>,
           reply |-> TransportError, outcome |-> NotCalled]

InitFactory ==
    /\ config \in Configs
    /\ made = [op \in FactoryOps |-> FactoryResult("", NotCalled)]
    /\ FixedAdapters
    /\ messages = List(<<UserMessage>>)
    /\ options = None
    /\ last = NoCall
    /\ tasks = <<>>
    /\ openSessions = {}

NextFactory == get_async_client \/ get_client \/ get_embedding_function

SpecFactory == InitFactory /\ [][NextFactory]_vars

(* Claims about the factory *)

CloudClasses == {"AsyncOpenAIClient", "OpenAIClient", "OpenAIEmbeddingFunction"}
LocalClasses == {"AsyncOllamaClient", "OllamaClient", "OllamaEmbeddingFunction"}
ClassOf(op, provider) ==
    CASE op = "get_async_client" ->
             IF provider = "cloud" THEN "AsyncOpenAIClient" ELSE "AsyncOllamaClient"
      [] op = "get_client" ->
             IF provider = "cloud" THEN "OpenAIClient" ELSE "OllamaClient"
      [] op = "get_embedding_function" ->
             IF provider = "cloud" THEN "OpenAIEmbeddingFunction" ELSE "OllamaEmbeddingFunction"

Called(op) == made[op].outcome # NotCalled
Returned(op, provider) ==
    /\ made[op].outcome.kind = "return"
    /\ made[op].outcome.value.cls = ClassOf(op, provider)
PickedProvider(op) ==
    IF made[op].logged \in {"Using OpenAI client", "Using OpenAI embedding function"}
    THEN "cloud" ELSE "local"

\* the cloud key is present, non-empty and not the placeholder
KeyConfigured ==
    /\ "OPENAI_API_KEY" \in DOMAIN config.val
    /\ config.val["OPENAI_API_KEY"].val # <<>>
    /\ config.val["OPENAI_API_KEY"].val # <<"&nbsp;">>

\* the entries of the record the local branch of op reads with config[...]
LocalEntries(op) ==
    IF op = "get_embedding_function"
    THEN {"OLLAMA_BASE_URL", "EMBEDDING_MODEL"} ELSE {"OLLAMA_BASE_URL"}

\* C1 as stated: every factory operation returns the cloud adapter iff the
\* cloud key is present, non-empty and not the placeholder, returns the local
\* adapter in every other case, and the three operations pick the same provider.
C1_AsStated ==
    /\ \A op \in FactoryOps :
          Called(op) =>
              /\ Returned(op, "cloud") <=> KeyConfigured
              /\ ~KeyConfigured => Returned(op, "local")
    /\ \A op1, op2 \in FactoryOps :
          Called(op1) /\ Called(op2) => PickedProvider(op1) = PickedProvider(op2)

\* C1 amended: every factory operation returns the cloud adapter iff the
\* cloud key is present, non-empty and not the placeholder; in every other
\* case it takes the local branch, which returns the local adapter when the
\* record has the entries that branch reads and raises KeyError otherwise;
\* the three operations pick the same provider.
C1_Selection ==
    /\ \A op \in FactoryOps :
          Called(op) =>
              /\ Returned(op, "cloud") <=> KeyConfigured
              /\ PickedProvider(op) = (IF KeyConfigured THEN "cloud" ELSE "local")
              /\ ~KeyConfigured =>
                    IF LocalEntries(op) \subseteq DOMAIN config.val
                    THEN Returned(op, "local")
                    ELSE /\ made[op].outcome.kind = "raise"
                         /\ made[op].outcome.value.exc = "KeyError"
    /\ \A op1, op2 \in FactoryOps :
          Called(op1) /\ Called(op2) => PickedProvider(op1) = PickedProvider(op2)

\* all three operations were called on a record whose key is the placeholder
\* and each handed back the local adapter
C1_Witness ==
    /\ "OPENAI_API_KEY" \in DOMAIN config.val
    /\ config.val["OPENAI_API_KEY"] = Placeholder
    /\ \A op \in FactoryOps : Called(op) /\ Returned(op, "local")

\* C7: whenever a factory operation selects the local provider and the
\* OLLAMA_BASE_URL entry is empty, the call fails and returns no adapter.
C7_EmptyEndpointFails ==
    \A op \in FactoryOps :
        (/\ Called(op)
         /\ PickedProvider(op) = "local"
         /\ "OLLAMA_BASE_URL" \in DOMAIN config.val
         /\ config.val["OLLAMA_BASE_URL"].val = <<>>)
        => made[op].outcome.kind = "raise"

-----------------------------------------------------------------------------
(* The cloud adapters at work *)

NoReply == [net |-> "none", status |-> 0, text |-> <<>>, json |-> InvalidJson]
Idle == [pc |-> "idle", op |-> "", args |-> <<>>, requests |-> <<>>,
         session |-> 0, status |-> 0]

ChatArgs(model, msgs, opts, format, tools) ==
    [model |-> model, messages |-> msgs, options |-> opts, format |-> format,
     tools |-> tools]
EmbeddingsArgs(model, prompt) == [model |-> model, prompt |-> prompt]
CallArgs(texts) == [texts |-> texts]

\* a finished call: its arguments, the HTTP requests it issued, the vendor's
\* reply and the value returned or the exception raised
Finished(adapter, op, args, requests, reply, outcome) ==
    [adapter |-> adapter, op |-> op, args |-> args, requests |-> requests,
     reply |-> reply, outcome |-> outcome]

\* aiohttp.ClientSession(): a new object, distinct from every open one
NewSession ==
    CHOOSE s \in 1..(Cardinality(openSessions) + 1) :
        /\ s \notin openSessions
        /\ \A r \in 1..(s - 1) : r \in openSessions

\* variant: the session closed by hand after the result is built, not by a scope
SessionsAfterExit_OnReturn(open, session, outcome) ==
    IF outcome.kind = "return" THEN open \ {session} ELSE open

\* leaving "async with aiohttp.ClientSession() as session", by return or by raise
SessionsAfterExit(open, session, outcome) == open \ {session}

\* the coroutine t ends: the session block is left, the caller gets the outcome
Finish(t, reply, outcome) ==
    /\ last' = Finished("AsyncClient", tasks[t].op, tasks[t].args,
                        tasks[t].requests, reply, outcome)
    /\ openSessions' = SessionsAfterExit(openSessions, tasks[t].session, outcome)
    /\ tasks' = [tasks EXCEPT ![t] = Idle]

(* AsyncClient.chat: up to the await of session.post *)
AsyncClient_chat(t, model, format, tools) ==
    /\ tasks[t].pc = "idle"
    /\ LET data == AsyncClient_request_data(model, messages, options, format, tools)
       IN  tasks' = [tasks EXCEPT ![t] =
                        [pc |-> "post", op |-> "chat",
                         args |-> ChatArgs(model, messages, options, format, tools),
                         requests |-> <<AsyncClient_chat_post(asyncClient, data)>>,
                         session |-> NewSession, status |-> 0]]
    /\ openSessions' = openSessions \cup {NewSession}
    /\ UNCHANGED <<config, made, asyncClient, client, embeddingFunction,
                   messages, options, last>>

(* AsyncClient.chat: session.post resumes with the status line, or fails *)
AsyncClient_chat_posted(t, arrived) ==
    /\ tasks[t].pc = "post" /\ tasks[t].op = "chat"
    /\ IF arrived.net = "error"
       THEN Finish(t, arrived, AsyncClient_chat_response(tasks[t].args.model, arrived))
       ELSE /\ tasks' = [tasks EXCEPT ![t].pc = "read", ![t].status = arrived.status]
            /\ UNCHANGED <<last, openSessions>>
    /\ UNCHANGED <<config, made, asyncClient, client, embeddingFunction,
                   messages, options>>

(* AsyncClient.chat: response.text() or response.json() resumes, or fails *)
AsyncClient_chat_read(t, reply) ==
    /\ tasks[t].pc = "read" /\ tasks[t].op = "chat"
    /\ reply.net = "error" \/ reply.status = tasks[t].status
    /\ Finish(t, reply, AsyncClient_chat_response(tasks[t].args.model, reply))
    /\ UNCHANGED <<config, made, asyncClient, client, embeddingFunction,
                   messages, options>>

(* AsyncClient.embeddings, in the same three steps *)
AsyncClient_embeddings(t, model, prompt) ==
    /\ tasks[t].pc = "idle"
    /\ tasks' = [tasks EXCEPT ![t] =
                    [pc |-> "post", op |-> "embeddings",
                     args |-> EmbeddingsArgs(model, prompt),
                     requests |-> <<AsyncClient_embeddings_post(asyncClient, model, prompt)>>,
                     session |-> NewSession, status |-> 0]]
    /\ openSessions' = openSessions \cup {NewSession}
    /\ UNCHANGED <<config, made, asyncClient, client, embeddingFunction,
                   messages, options, last>>

AsyncClient_embeddings_posted(t, arrived) ==
    /\ tasks[t].pc = "post" /\ tasks[t].op = "embeddings"
    /\ IF arrived.net = "error"
       THEN Finish(t, arrived, AsyncClient_embeddings_response(arrived))
       ELSE /\ tasks' = [tasks EXCEPT ![t].pc = "read", ![t].status = arrived.status]
            /\ UNCHANGED <<last, openSessions>>
    /\ UNCHANGED <<config, made, asyncClient, client, embeddingFunction,
                   messages, options>>

AsyncClient_embeddings_read(t, reply) ==
    /\ tasks[t].pc = "read" /\ tasks[t].op = "embeddings"
    /\ reply.net = "error" \/ reply.status = tasks[t].status
    /\ Finish(t, reply, AsyncClient_embeddings_response(reply))
    /\ UNCHANGED <<config, made, asyncClient, client, embeddingFunction,
                   messages, options>>

\* variant: the default temperature written into the caller's options dict
Client_chat_SetDefault(model, format, tools, reply) ==
    /\ LET data == Client_request_data(model, messages, options, format, tools)
       IN  last' = Finished("Client", "chat",
                            ChatArgs(model, messages, options, format, tools),
                            <<Client_chat_post(client, data)>>, reply,
                            Client_chat_response(model, reply))
    /\ options' = IF Truthy(options)
                  THEN Dict(options.val
                            @@ ("temperature" :> Float(DefaultTemperatureTenths)))
                  ELSE options
    /\ UNCHANGED <<config, made, asyncClient, client, embeddingFunction,
                   messages, tasks, openSessions>>

(* Client.chat: blocking, one step *)
Client_chat(model, format, tools, reply) ==
    /\ LET data == Client_request_data(model, messages, options, format, tools)
       IN  last' = Finished("Client", "chat",
                            ChatArgs(model, messages, options, format, tools),
                            <<Client_chat_post(client, data)>>, reply,
                            Client_chat_response(model, reply))
    /\ UNCHANGED <<config, made, asyncClient, client, embeddingFunction,
                   messages, options, tasks, openSessions>>

(* client.embeddings(...) on a Client: the class defines no such method *)
Client_embeddings(model, prompt) ==
    /\ last' = Finished("Client", "embeddings", EmbeddingsArgs(model, prompt),
                        <<>>, NoReply, Raise("AttributeError", <<"embeddings">>))
    /\ UNCHANGED <<config, made, asyncClient, client, embeddingFunction,
                   messages, options, tasks, openSessions>>

\* variant: no early return for an empty batch
OpenAIEmbeddingFunction_call_Unguarded(texts, reply) ==
    /\ last' = Finished("OpenAIEmbeddingFunction", "__call__", CallArgs(texts),
                        <<OpenAIEmbeddingFunction_post(embeddingFunction, texts)>>,
                        reply, OpenAIEmbeddingFunction_response(reply))
    /\ UNCHANGED <<config, made, asyncClient, client, embeddingFunction,
                   messages, options, tasks, openSessions>>

(* OpenAIEmbeddingFunction.__call__ *)
OpenAIEmbeddingFunction_call(texts, reply) ==
    /\ IF ~Truthy(texts)
       THEN last' = Finished("OpenAIEmbeddingFunction", "__call__", CallArgs(texts),
                             <<>>, NoReply, Return(List(<<>>)))
       ELSE last' = Finished("OpenAIEmbeddingFunction", "__call__", CallArgs(texts),
                             <<OpenAIEmbeddingFunction_post(embeddingFunction, texts)>>,
                             reply, OpenAIEmbeddingFunction_response(reply))
    /\ UNCHANGED <<config, made, asyncClient, client, embeddingFunction,
                   messages, options, tasks, openSessions>>

Constructed(hosts) ==
    \E host \in hosts, api_key \in ApiKeys :
        /\ asyncClient = AsyncClient_init(host, api_key)
        /\ client = Client_init(host, api_key)
        /\ embeddingFunction = OpenAIEmbeddingFunction_init(api_key, EmbedModel, host)

InitAdapters(hosts, optionValues, ntasks) ==
    /\ config = Dict(<<>>)
    /\ made = [op \in FactoryOps |-> FactoryResult("", NotCalled)]
    /\ Constructed(hosts)
    /\ messages \in MessageLists
    /\ options \in optionValues
    /\ last = NoCall
    /\ tasks = [t \in 1..ntasks |-> Idle]
    /\ openSessions = {}

(* The blocking adapters, driven with every reply shape: SpecBlocking *)

InitBlocking == InitAdapters(Hosts, OptionValues, 0)
NextBlocking ==
    \/ \E x \in ChatExtras, r \in ChatReplies : Client_chat(ChatModel, x.format, x.tools, r)
    \/ \E p \in Prompts : Client_embeddings(EmbedModel, p)
    \/ \E texts \in TextLists, r \in EmbedReplies : OpenAIEmbeddingFunction_call(texts, r)
SpecBlocking == InitBlocking /\ [][NextBlocking]_vars

(* All cloud adapters, the blocking calls running between the steps of    *)
(* MaxTasks coroutines, with one reply per path of the code: SpecCloud    *)

Arrivals == {TransportError} \cup {HttpReply(s, <<>>, InvalidJson) : s \in {200, 201, 500}}
CloudHosts == {h \in Hosts : h.val # rstrip(h.val)}
PathExtras == {x \in ChatExtras : Truthy(x.tools)}
PathChatReplies ==
    {TransportError} \cup ErrorReplies
    \cup {HttpReply(200, <<"json">>, b) :
             b \in {InvalidJson,
                    Dict("choices" :> List(<<Choice(ChoiceMessage("assistant", "hi",
                                                                   InvalidJson))>>))}}
PathEmbedReplies ==
    {TransportError} \cup ErrorReplies
    \cup {HttpReply(200, <<"json">>, b) : b \in {InvalidJson, Dict("data" :> DataList(<<1>>))}}
PathTextLists == {texts \in TextLists : Len(texts.val) <= 1}

InitCloud == InitAdapters(CloudHosts, CloudOptionValues, MaxTasks)
NextCloud ==
    \/ \E t \in DOMAIN tasks, x \in PathExtras :
           AsyncClient_chat(t, ChatModel, x.format, x.tools)
    \/ \E t \in DOMAIN tasks, a \in Arrivals : AsyncClient_chat_posted(t, a)
    \/ \E t \in DOMAIN tasks, r \in PathChatReplies : AsyncClient_chat_read(t, r)
    \/ \E t \in DOMAIN tasks, p \in Prompts : AsyncClient_embeddings(t, EmbedModel, p)
    \/ \E t \in DOMAIN tasks, a \in Arrivals : AsyncClient_embeddings_posted(t, a)
    \/ \E t \in DOMAIN tasks, r \in PathEmbedReplies : AsyncClient_embeddings_read(t, r)
    \/ \E x \in PathExtras, r \in PathChatReplies :
           Client_chat(ChatModel, x.format, x.tools, r)
    \/ \E p \in Prompts : Client_embeddings(EmbedModel, p)
    \/ \E texts \in PathTextLists, r \in PathEmbedReplies :
           OpenAIEmbeddingFunction_call(texts, r)
SpecCloud == InitCloud /\ [][NextCloud]_vars

-----------------------------------------------------------------------------
(* Claims about the cloud adapters *)

HasOption(opts, k) == opts.type = "dict" /\ k \in DOMAIN opts.val
ChatFinished == last.op = "chat" /\ last.outcome # NotCalled
Answered == last.reply.net = "ok"

\* C2: the chat request carries temperature = options.temperature, or 0.7
\* without one; max_tokens = options.num_predict when given, and no
\* max_tokens field at all when num_predict is omitted.
C2_OptionMapping ==
    ChatFinished =>
        LET body == last.requests[1].json
            opts == last.args.options
        IN  /\ body["temperature"] =
                   (IF HasOption(opts, "temperature") THEN opts.val["temperature"]
                    ELSE Float(DefaultTemperatureTenths))
            /\ IF HasOption(opts, "num_predict")
               THEN /\ "max_tokens" \in DOMAIN body
                    /\ body["max_tokens"] = opts.val["num_predict"]
               ELSE "max_tokens" \notin DOMAIN body

IsSuffix(t, s) == Len(t) <= Len(s) /\ SubSeq(s, Len(s) - Len(t) + 1, Len(s)) = t

\* C3: when the vendor answers with a status other than 200, the call ends in
\* a raised error carrying the vendor's error body, no response value is
\* returned, and exactly one HTTP request was issued during the call.
C3_ErrorSurfacing ==
    (Answered /\ last.reply.status # 200) =>
        /\ last.outcome.kind = "raise"
        /\ last.reply.text # <<>>
        /\ IsSuffix(last.reply.text, last.outcome.value.arg)
        /\ Len(last.requests) = 1

\* Client.chat got status 201 and raised
C3_Witness ==
    /\ last.adapter = "Client" /\ last.op = "chat"
    /\ Answered /\ last.reply.status = 201
    /\ last.outcome.kind = "raise"

WellFormedChat ==
    /\ ChatFinished /\ Answered /\ last.reply.status = 200
    /\ last.reply.json # InvalidJson
    /\ "choices" \in DOMAIN last.reply.json.val
    /\ last.reply.json.val["choices"].val # <<>>

\* C4: for a status-200 chat reply the result has the first choice's content
\* and role, the first choice's tool calls (the empty sequence when the field
\* is absent or null), and done = true.
C4_ResponseTranslation ==
    WellFormedChat =>
        LET first == last.reply.json.val["choices"].val[1].val["message"].val
            res == last.outcome.value.val
        IN  /\ last.outcome.kind = "return"
            /\ res["message"].val["content"] = first["content"]
            /\ res["message"].val["role"] = first["role"]
            /\ res["tool_calls"] =
                   (IF "tool_calls" \in DOMAIN first /\ first["tool_calls"] # None
                    THEN first["tool_calls"] ELSE List(<<>>))
            /\ res["done"] = PyTrue

EmbedFinished == last.adapter = "OpenAIEmbeddingFunction" /\ last.outcome # NotCalled

\* C5: the embedding function called with no texts returns the empty list,
\* does not fail, and issues no HTTP request.
C5_EmptyBatch ==
    (EmbedFinished /\ last.args.texts = List(<<>>)) =>
        /\ last.outcome = Return(List(<<>>))
        /\ last.requests = <<>>

\* the embedding function was called with no texts
C5_Witness ==
    /\ EmbedFinished /\ last.args.texts = List(<<>>)
    /\ last.outcome.kind = "return"

\* C6: for N >= 1 texts the embedding function fails or returns exactly N
\* vectors, the i-th being the i-th entry of the vendor's data list.
C6_WholeBatch ==
    (EmbedFinished /\ last.args.texts # List(<<>>)) =>
        \/ last.outcome.kind = "raise"
        \/ /\ Len(last.outcome.value.val) = Len(last.args.texts.val)
           /\ \A i \in 1..Len(last.args.texts.val) :
                 last.outcome.value.val[i] =
                     last.reply.json.val["data"].val[i].val["embedding"]

\* C8: Client and AsyncClient offer the same operations, and for the same
\* constructor arguments, call arguments and vendor reply each operation
\* sends the same request and ends the same way.
C8_SameBehaviour ==
    /\ (last.adapter = "Client" /\ last.op = "chat") =>
          /\ last.requests =
                 <<AsyncClient_chat_post(asyncClient,
                      AsyncClient_request_data(last.args.model, last.args.messages,
                          last.args.options, last.args.format, last.args.tools))>>
          /\ last.outcome = AsyncClient_chat_response(last.args.model, last.reply)
    /\ (last.adapter = "Client" /\ last.op = "embeddings") =>
          /\ last.requests =
                 <<AsyncClient_embeddings_post(asyncClient, last.args.model,
                                               last.args.prompt)>>
          /\ \E r \in EmbedReplies : last.outcome = AsyncClient_embeddings_response(r)

Active == {t \in DOMAIN tasks : tasks[t].pc # "idle"}

\* C9: every AsyncClient call has a session of its own, open while the call
\* is suspended and closed when it returns or raises; no two calls share a
\* session and no session outlives its call.
C9_ScopedSessions ==
    /\ \A t \in Active : tasks[t].session \in openSessions
    /\ \A t, u \in Active : t # u => tasks[t].session # tasks[u].session
    /\ openSessions = {tasks[t].session : t \in Active}

\* one call has raised and closed its session while another is still suspended
C9_Witness ==
    /\ last.adapter = "AsyncClient" /\ last.outcome.kind = "raise"
    /\ Cardinality(Active) = 1
    /\ Cardinality(openSessions) = 1

\* C10: no operation changes an adapter instance or the caller's messages
\* and options.
C10_NoMutation ==
    [][/\ asyncClient' = asyncClient
       /\ client' = client
       /\ embeddingFunction' = embeddingFunction
       /\ messages' = messages
       /\ options' = options]_vars

\* a blocking chat with an options dict lacking a temperature has finished
\* while a coroutine is suspended, and the adapters are as constructed
C10_Witness ==
    /\ last.adapter = "Client" /\ last.op = "chat"
    /\ HasOption(last.args.options, "num_predict")
    /\ ~HasOption(options, "temperature")
    /\ Active # {}
    /\ Constructed(Hosts)

====
